---- MODULE Spec2Model ----
(***************************************************************************)
(* TrajectoryFollower (trajectory_following/trajectory_following.py): the  *)
(* potential-field controller as a state machine.  The state is the        *)
(* instance's fields; there is one action per public method.               *)
(*                                                                         *)
(* Units.  Joint angles and joint displacements are integers in 1/1000     *)
(* rad, world coordinates and clearances are integers in 1/100 m, so 0.05  *)
(* is 5, 0.1 is 10, the default collision threshold 0.01 is 1 and          *)
(* MAX_SPEED 0.3 is 300.  A time step is given in tenths of a second.      *)
(* Values that can be non-finite (the gradient, the displacement, the      *)
(* target) are records [t, v] with t in {"fin", "nan", "inf"}.             *)
(***************************************************************************)
EXTENDS Integers, Sequences, FiniteSets

VARIABLES
    control_points_json,   \* self._control_points_json: "None" or "path"
    control_points,        \* self.control_points: [set, val]; unset until the file is loaded
    trajectory,            \* self._trajectory: [set, val]
    trajectory_skeleton_control_points,            \* [set, val]
    trajectory_skeleton_control_points_distances,  \* [set, val]
    consider_obstacle_collisions,                  \* self._consider_obstacle_collisions
    grasped_object_nominal_control_points,         \* [set, val]; set = FALSE is None
    grasped_object_grasp_T_object,                 \* [set, val]; set = FALSE is None
    csdf,                  \* the point cloud held by self.csdf
    collision_threshold,   \* self.collision_threshold
    H_handshake,           \* self.H_handshake: "None" or the configured clamp
    ee_pose,               \* self.ee_pose: [set, val], written by _get_mesh_control_points
    running,               \* the call of another thread that is part-way through
    last                   \* the last call: its name, arguments, outcome and result

vars == << control_points_json, control_points, trajectory,
           trajectory_skeleton_control_points,
           trajectory_skeleton_control_points_distances,
           consider_obstacle_collisions, grasped_object_nominal_control_points,
           grasped_object_grasp_T_object, csdf, collision_threshold,
           H_handshake, ee_pose, running, last >>

(***************************************************************************)
(* Program constants and model bounds.                                     *)
(***************************************************************************)
ControlPointsNumber == 70      \* __init__: control_points_number = 70
MAX_SPEED == 300               \* follow_trajectory: MAX_SPEED = 0.3
CONTROL_GAIN == 300            \* follow_trajectory: CONTROL_GAIN = 0.3
DefaultCollisionThreshold == 1 \* __init__: self.collision_threshold = 0.01
ValidMargin == 5               \* attractive_potential: sdf_value + 0.05
ValidRadius == 10              \* attractive_potential: <= 0.1
AttractiveGain == 10           \* forward: 10.0 * attractive_potential
RepulsiveGain == 2             \* forward: 2.0 * repulsive_potential

\* update_trajectory resamples to size=500 (line 285); the model resamples to
\* TrajectorySize waypoints, a bound that nothing below depends on the value of.
TrajectorySize == 6
MaxGradScale == 2              \* largest gradient magnitude, in units of 1.0

Unset == [set |-> FALSE, val |-> << >>]
Value(v) == [set |-> TRUE, val |-> v]

Min2(a, b) == IF a <= b THEN a ELSE b
Max2(a, b) == IF a >= b THEN a ELSE b
Abs(a) == IF a < 0 THEN -a ELSE a

RECURSIVE SetMin(_)
SetMin(S) ==
    LET x == CHOOSE y \in S : TRUE
    IN  IF S = {x} THEN x ELSE Min2(x, SetMin(S \ {x}))

(***************************************************************************)
(* Functional.interpolate(x, size, mode='linear', align_corners=True)      *)
(* along the index axis of a sequence of integer vectors: output i sits at *)
(* input position (i-1)*(n-1)/(size-1) and blends its two neighbours.      *)
(***************************************************************************)
Blend(a, b, fr, span) ==
    [k \in DOMAIN a |-> (a[k] * (span - fr) + b[k] * fr) \div span]

Interpolate(xs, size) ==
    LET n == Len(xs)
        span == size - 1
    IN  [i \in 1..size |->
            LET pos == (i - 1) * (n - 1)
                lo == pos \div span
                fr == pos % span
                hi == Min2(lo + 1, n - 1)
            IN  Blend(xs[lo + 1], xs[hi + 1], fr, span)]

(***************************************************************************)
(* The forward-kinematics collaborator (pytorch_kinematics), base frame:   *)
(* the translation of each link of a two-joint arm whose end effector      *)
(* moves 1 cm per 40 mrad of each joint.                                   *)
(***************************************************************************)
link_skeleton == << "fixed_link", "ee_link" >>

ForwardKinematics(q, link) ==
    IF link = "fixed_link" THEN << 0, 0, 0 >>
    ELSE << q[1] \div 40, q[2] \div 40, 0 >>

world_to_robot_base == << 1, 0, 0 >>

VecAdd(a, b) == [k \in DOMAIN a |-> a[k] + b[k]]
VecScale(s, a) == [k \in DOMAIN a |-> s * a[k]]

\* The control-point description file: link name -> local offsets, in file order.
ControlPointsFile ==
    << [link |-> "fixed_link", offsets |-> << << 0, 0, 0 >> >>],
       [link |-> "ee_link", offsets |-> << << 0, 0, 0 >>, << 2, 0, 0 >> >>] >>

RECURSIVE Flatten(_)
Flatten(ss) == IF ss = << >> THEN << >> ELSE Head(ss) \o Flatten(Tail(ss))


(***************************************************************************)
(* Control-point extraction.  Each operator returns [err, val]: err is     *)
(* "none" or the exception the Python raises, val the tensor as a sequence *)
(* (one entry per configuration of the batch) of sequences of points.      *)
(* nominal and grasp are the two attachment fields as the caller has them  *)
(* when it extracts (attach and detach write them before they extract).    *)
(***************************************************************************)
Ok(v) == [val |-> v, err |-> "none"]
Raise(e) == [val |-> << >>, err |-> e]

\* T_eef_to_obj @ (a point transform): linear part scale * I, translation shift.
GraspApply(T, p) == VecAdd(VecScale(T.scale, p), T.shift)

\* _get_skeleton_control_points, lines 184-191: one point per skeleton link.
SkeletonLinkPoints(q) ==
    [i \in 1..Len(link_skeleton) |-> ForwardKinematics(q, link_skeleton[i])]

\* _get_skeleton_control_points.  With an object attached, line 196 stacks the
\* (n, 4, 4) tensor attach_to_gripper stored with an (n, 1) column: torch.hstack
\* raises RuntimeError for tensors of different rank, whatever n is.
GetSkeletonControlPoints(states, nominal, grasp) ==
    IF grasp.set
    THEN Raise("RuntimeError: hstack")
    ELSE Ok([b \in 1..Len(states) |-> SkeletonLinkPoints(states[b])])

\* _get_mesh_control_points, lines 226-232: offsets through each link's pose.
MeshLinkPoints(q) ==
    Flatten([e \in 1..Len(control_points.val) |->
        [j \in 1..Len(control_points.val[e].offsets) |->
            VecAdd(world_to_robot_base,
                   VecAdd(ForwardKinematics(q, control_points.val[e].link),
                          control_points.val[e].offsets[j]))]])

\* _get_mesh_control_points, lines 235-240: the grasped object's points.
MeshObjectPoints(q, nominal, grasp) ==
    IF grasp.set
    THEN [j \in 1..Len(nominal.val) |->
            VecAdd(world_to_robot_base,
                   VecAdd(ForwardKinematics(q, link_skeleton[Len(link_skeleton)]),
                          GraspApply(grasp.val, nominal.val[j])))]
    ELSE << >>

\* _get_mesh_control_points: self.control_points is read first (line 213) and
\* does not exist when the description file was not loaded.
GetMeshControlPoints(states, nominal, grasp) ==
    IF ~control_points.set
    THEN Raise("AttributeError: control_points")
    ELSE Ok([b \in 1..Len(states) |->
                MeshLinkPoints(states[b]) \o MeshObjectPoints(states[b], nominal, grasp)])

\* The branch every caller takes on self._control_points_json (lines 253, 289,
\* 415, 442).
MeshMode == control_points_json # "None"

\* EePoseAfter with the pose stored by the skeleton extraction as well.
EePoseAlways(states) ==
    Value([b \in 1..Len(states) |->
             ForwardKinematics(states[b], link_skeleton[Len(link_skeleton)])])

\* self.ee_pose after the extraction of states (line 221, mesh mode only).
EePoseAfter(states) ==
    IF MeshMode /\ control_points.set
    THEN Value([b \in 1..Len(states) |->
                  ForwardKinematics(states[b], link_skeleton[Len(link_skeleton)])])
    ELSE ee_pose

\* The cached points of a trajectory (lines 289-292, 415-419, 442-445).
TrajectoryControlPoints(states, nominal, grasp) ==
    IF MeshMode THEN GetMeshControlPoints(states, nominal, grasp)
    ELSE GetSkeletonControlPoints(states, nominal, grasp)

\* _get_control_points: [err, skeleton, dense].
GetControlPoints(states, nominal, grasp) ==
    IF MeshMode
    THEN LET r == GetMeshControlPoints(states, nominal, grasp)
         IN  [err |-> r.err, skeleton |-> r.val, dense |-> r.val]
    ELSE LET r == GetSkeletonControlPoints(states, nominal, grasp)
         IN  [err |-> r.err, skeleton |-> r.val,
              dense |-> [b \in 1..Len(r.val) |->
                            Interpolate(r.val[b], ControlPointsNumber)]]

(***************************************************************************)
(* The clearance collaborator (csdf): per configuration, the distance of   *)
(* the nearest control point to the nearest point of the cloud.            *)
(***************************************************************************)
PointDistance(p, c) ==
    Max2(Abs(p[1] - c[1]), Max2(Abs(p[2] - c[2]), Abs(p[3] - c[3])))

CloudDistance(points, cloud) ==
    SetMin({PointDistance(points[i], c) : i \in 1..Len(points), c \in cloud})

ComputeDistances(batch, cloud) ==
    [b \in 1..Len(batch) |-> CloudDistance(batch[b], cloud)]

(***************************************************************************)
(* Values that may be non-finite, with the IEEE rules the step relies on.  *)
(***************************************************************************)
F(n) == [v |-> n, t |-> "fin"]
NaN == [v |-> 0, t |-> "nan"]
Inf(sign) == [v |-> sign, t |-> "inf"]

Sign(n) == IF n < 0 THEN -1 ELSE 1

\* The integer square root: the n in lo..hi with n * n <= s < (n + 1) * (n + 1).
RECURSIVE SqrtBetween(_, _, _)
SqrtBetween(s, lo, hi) ==
    IF lo >= hi THEN lo
    ELSE LET mid == (lo + hi + 1) \div 2
         IN  IF mid * mid <= s THEN SqrtBetween(s, mid, hi)
             ELSE SqrtBetween(s, lo, mid - 1)

ISqrt(s) == SqrtBetween(s, 0, 30000)

SumSq(v) ==
    LET sq == [k \in DOMAIN v |-> v[k] * v[k]]
    IN  IF Len(v) = 2 THEN sq[1] + sq[2] ELSE sq[1] + sq[2] + sq[3]

\* torch.linalg.norm of a vector of F values.
FNorm(v) ==
    IF \E k \in DOMAIN v : v[k].t = "nan" THEN NaN
    ELSE IF \E k \in DOMAIN v : v[k].t = "inf" THEN Inf(1)
    ELSE F(ISqrt(SumSq([k \in DOMAIN v |-> v[k].v])))

\* a > m for an F value a and a finite m: a comparison with NaN is False.
FGreater(a, m) ==
    CASE a.t = "nan" -> FALSE
      [] a.t = "inf" -> a.v > 0
      [] OTHER -> a.v > m

\* m * a / n for a finite m > 0 and F values a, n with n >= 0.
FScaleDiv(m, a, n) ==
    CASE a.t = "nan" \/ n.t = "nan" -> NaN
      [] a.t = "inf" /\ n.t = "inf" -> NaN
      [] a.t = "inf" -> a
      [] n.t = "inf" -> F(0)
      [] n.v = 0 -> IF a.v = 0 THEN NaN ELSE Inf(Sign(a.v))
      [] OTHER -> F(Sign(a.v) * ((m * Abs(a.v)) \div n.v))

\* x + a for a finite x and an F value a.
FAdd(x, a) == IF a.t = "fin" THEN F(x + a.v) ELSE a

\* np.isnan(v).any()
IsNanAny(v) == \E k \in DOMAIN v : v[k].t = "nan"

(***************************************************************************)
(* attractive_potential, implicit_obstacles and forward.                   *)
(***************************************************************************)
AttractiveOne == 1000000       \* 1.0 in the unit of a squared joint distance
ClearanceOne == 100            \* 1.0 in the unit of a clearance

VecSub(a, b) == [k \in DOMAIN a |-> a[k] - b[k]]

\* torch.linalg.norm(d) <= bound for an integer vector d: the norm is >= 0.
NormWithin(d, bound) == bound >= 0 /\ SumSq(d) <= bound * bound

\* lines 319-322: the allowed deviation of a cached waypoint.
ValidBound(sdf_value) ==
    IF consider_obstacle_collisions THEN sdf_value + ValidMargin ELSE ValidRadius

\* lines 317-322: torch.all over the points of each cached waypoint.
ValidWaypoints(skeleton, sdf_value) ==
    [i \in 1..Len(trajectory_skeleton_control_points.val) |->
        \A p \in 1..Len(skeleton) :
            NormWithin(VecSub(trajectory_skeleton_control_points.val[i][p], skeleton[p]),
                       ValidBound(sdf_value))]

\* self._trajectory[valid_waypoints]: the waypoints the mask keeps, in order.
MaskedTrajectory(valid) ==
    LET indexed == [i \in 1..Len(trajectory.val) |-> [i |-> i, q |-> trajectory.val[i]]]
        Kept(e) == valid[e.i]
    IN  SelectSeq(indexed, Kept)

\* Goal with the nearest-along waypoint picked instead of the furthest.
GoalFirstValid(state, masked) ==
    IF Len(masked) > 0 THEN masked[1].q ELSE state

\* lines 325-328: the furthest valid waypoint, or the state itself.
Goal(state, masked) ==
    IF Len(masked) > 0 THEN masked[Len(masked)].q ELSE state

\* implicit_obstacles, line 351.
ImplicitObstacles(dense) == CloudDistance(dense, csdf) - collision_threshold

\* Potential with the flag ignored: the composite form in both cases.
PotentialIgnoringFlag(attractive, repulsive) ==
    [num |-> AttractiveOne + AttractiveGain * attractive,
     den |-> ClearanceOne + RepulsiveGain * repulsive]

\* lines 478-483: the potential as the fraction num / den, num in units of
\* 1 / AttractiveOne and den in units of 1 / ClearanceOne.
Potential(attractive, repulsive) ==
    IF consider_obstacle_collisions
    THEN [num |-> AttractiveOne + AttractiveGain * attractive,
          den |-> ClearanceOne + RepulsiveGain * repulsive]
    ELSE [num |-> AttractiveGain * attractive, den |-> ClearanceOne]

NoForward ==
    [err |-> "none", skeleton |-> << >>, sdf_value |-> 0, attractive |-> 0,
     goal |-> << >>, potential |-> [num |-> 0, den |-> ClearanceOne]]

\* forward(current_ja) for the batch of one configuration state.  Line 325
\* indexes self._trajectory with the mask of the cached waypoints: a mask of
\* another length raises IndexError.
Forward(state) ==
    LET cp == GetControlPoints(<< state >>, grasped_object_nominal_control_points,
                               grasped_object_grasp_T_object)
    IN  IF cp.err # "none" THEN [NoForward EXCEPT !.err = cp.err]
        ELSE LET sdf_value == ImplicitObstacles(cp.dense[1])
                 skeleton == cp.skeleton[1]
             IN  IF ~trajectory_skeleton_control_points.set
                 THEN [NoForward EXCEPT !.err = "AttributeError: _trajectory_skeleton_control_points",
                                        !.skeleton = skeleton, !.sdf_value = sdf_value]
                 ELSE IF Len(trajectory_skeleton_control_points.val[1]) # Len(skeleton)
                 THEN [NoForward EXCEPT !.err = "RuntimeError: broadcast",
                                        !.skeleton = skeleton, !.sdf_value = sdf_value]
                 ELSE IF Len(trajectory_skeleton_control_points.val) # Len(trajectory.val)
                 THEN [NoForward EXCEPT !.err = "IndexError: mask",
                                        !.skeleton = skeleton, !.sdf_value = sdf_value]
                 ELSE LET valid == ValidWaypoints(skeleton, sdf_value)
                          goal == Goal(state, MaskedTrajectory(valid))
                          attractive == SumSq(VecSub(state, goal))
                      IN  [err |-> "none", skeleton |-> skeleton,
                           sdf_value |-> sdf_value,
                           attractive |-> attractive, goal |-> goal,
                           potential |-> Potential(attractive, sdf_value)]

(***************************************************************************)
(* follow_trajectory, lines 513-516: the bounded displacement.  The        *)
(* gradient is in units of 1/1000, the time step in tenths.                *)
(***************************************************************************)
RawDelta(grad, time_step) ==
    [k \in DOMAIN grad |->
        CASE grad[k].t = "nan" -> NaN
          [] grad[k].t = "inf" -> Inf(-grad[k].v)
          [] OTHER -> F(-Sign(grad[k].v)
                        * ((CONTROL_GAIN * Abs(grad[k].v) * time_step) \div 10000))]

\* BoundedDelta with the rescaling left out.
UnboundedDelta(raw) == raw

BoundedDelta(raw) ==
    IF FGreater(FNorm(raw), MAX_SPEED)
    THEN [k \in DOMAIN raw |-> FScaleDiv(MAX_SPEED, raw[k], FNorm(raw))]
    ELSE raw

\* lines 545, 551: current_joint_angles + delta_joint_angles.
Candidate(state, delta) == [k \in DOMAIN state |-> FAdd(state[k], delta[k])]

(***************************************************************************)
(* H_handshake.clamp_human_joints (trajectory_following_handshake.py): an  *)
(* opaque function of the proposed configuration and of a human            *)
(* configuration.  "limits" clips every joint to the arm's limits;         *)
(* "unbounded" stands for a collaborator whose own arithmetic overflows in *)
(* the first joint; "proximity" keeps every joint within 0.1 of the        *)
(* human's.                                                                *)
(***************************************************************************)
ClampKinds == {"limits", "unbounded", "proximity"}

ClipF(a, lo, hi) ==
    CASE a.t = "nan" -> NaN
      [] a.t = "inf" -> IF a.v > 0 THEN F(hi) ELSE F(lo)
      [] OTHER -> F(Max2(lo, Min2(hi, a.v)))

ClampHumanJoints(kind, target, human) ==
    CASE kind = "limits" ->
            [k \in DOMAIN target |-> ClipF(target[k], 0, 500)]
      [] kind = "proximity" ->
            [k \in DOMAIN target |-> ClipF(target[k], human[k] - 100, human[k] + 100)]
      [] OTHER ->
            [k \in DOMAIN target |->
                IF k = 1 /\ target[k].t # "nan" THEN Inf(1) ELSE target[k]]

(***************************************************************************)
(* The inputs the calls are given.                                         *)
(***************************************************************************)
\* Waypoints on a grid that the resampling to TrajectorySize divides exactly.
Grid(a, b) == << 100 * a * (TrajectorySize - 1), 100 * b * (TrajectorySize - 1) >>
Trajectories ==
    { << Grid(0, 0) >>, << Grid(0, 0), Grid(2, 1) >>, << Grid(2, 1), Grid(0, 0) >>,
      << Grid(0, 0), Grid(2, 1), Grid(0, 0) >> }

StepTrajectories == { << Grid(0, 0), Grid(2, 1) >> }

Clouds == { { << 60, 0, 0 >> }, { << 4, 0, 0 >> } }
Thresholds == { DefaultCollisionThreshold, 10 }
CurrentConfigs == { << 0, 0 >>, << 400, 200 >> }
TimeSteps == { 5, 10 }
HumanConfigs == { << 0, 0 >>, << 200, 200 >> }
\* The human configuration _init_H_clamping hands to the clamp (lines 135, 144).
human_rest_poses == << 0, 0 >>

GradDirections == { << 1000, 0 >>, << 600, 800 >> }
Gradients ==
    { << F(k * d[1]), F(k * d[2]) >> : k \in 0..MaxGradScale, d \in GradDirections }
    \cup { << NaN, F(0) >>, << F(0), Inf(1) >> }

RigidT == [scale |-> 1, shift |-> << 1, 0, 0 >>]
NonRigidT == [scale |-> 2, shift |-> << 0, 0, 0 >>]
Obj(type, points, T) ==
    [points |-> points, type |-> type, T_eef_to_obj |-> T,
     T_obj_to_world |-> << 0, 1, 0 >>]
\* A well-formed point cloud, an empty one, one with a non-rigid offset (a
\* scaling), and an object given as a mesh.
Objects ==
    { Obj("pcd", << << 3, 0, 0 >> >>, RigidT),
      Obj("pcd", << >>, RigidT),
      Obj("pcd", << << 3, 0, 0 >>, << 0, 2, 0 >> >>, NonRigidT),
      Obj("mesh", << << 3, 0, 0 >> >>, RigidT) }
NoObject ==
    [points |-> << >>, type |-> "", T_eef_to_obj |-> RigidT,
     T_obj_to_world |-> << 0, 0, 0 >>]

(***************************************************************************)
(* What a call leaves in last.                                             *)
(***************************************************************************)
NoSnap ==
    [trajectory |-> FALSE, taken |-> FALSE, attached |-> FALSE, cache |-> FALSE,
     extract |-> "none", skeleton_count |-> 0, dense_count |-> 0, cached_count |-> 0]

\* The point counts extract and the cache give in the current state.
Snap ==
    LET cp == GetControlPoints(<< << 0, 0 >> >>, grasped_object_nominal_control_points,
                               grasped_object_grasp_T_object)
    IN  [trajectory |-> trajectory.set,
         taken |-> TRUE,
         attached |-> grasped_object_grasp_T_object.set
                      \/ grasped_object_nominal_control_points.set,
         cache |-> trajectory_skeleton_control_points.set,
         extract |-> cp.err,
         skeleton_count |-> IF cp.err = "none" THEN Len(cp.skeleton[1]) ELSE 0,
         dense_count |-> IF cp.err = "none" THEN Len(cp.dense[1]) ELSE 0,
         cached_count |-> IF trajectory_skeleton_control_points.set
                          THEN Len(trajectory_skeleton_control_points.val[1]) ELSE 0]

NoStep ==
    [state |-> << >>, grad |-> << >>, time_step |-> 0, raw |-> << >>,
     delta |-> << >>, target |-> << >>, human |-> << >>, forward |-> NoForward,
     candidate |-> << >>]

NoCall ==
    [op |-> "__init__", outcome |-> "ok", ret |-> "None",
     arg_trajectory |-> << >>, arg_flag |-> TRUE, arg_object |-> NoObject,
     arg_pcd |-> {},
     pre |-> NoSnap, pre_nominal |-> Unset, pre_grasp |-> Unset,
     round_trip |-> NoSnap, again |-> FALSE, step |-> NoStep]

\* No call of another thread is part-way through.
Idle == [op |-> "None", flag |-> TRUE]

(***************************************************************************)
(* __init__, lines 43-130.  The description file may be absent (None),     *)
(* given and found, or given and missing: a missing file leaves            *)
(* self.control_points unassigned and self._control_points_json as given.  *)
(***************************************************************************)
Init ==
    /\ \E json \in {"None", "found", "missing"} :
          /\ control_points_json = (IF json = "None" THEN "None" ELSE "path")
          /\ control_points = (IF json = "found" THEN Value(ControlPointsFile) ELSE Unset)
    /\ \E given \in {FALSE, TRUE} :
          trajectory = (IF given THEN Value(<< Grid(0, 0), Grid(2, 1) >>) ELSE Unset)
    /\ trajectory_skeleton_control_points = Unset
    /\ trajectory_skeleton_control_points_distances = Unset
    /\ consider_obstacle_collisions = TRUE
    /\ grasped_object_nominal_control_points = Unset
    /\ grasped_object_grasp_T_object = Unset
    /\ csdf \in Clouds
    /\ collision_threshold = DefaultCollisionThreshold
    /\ H_handshake = "None"
    /\ ee_pose = Unset
    /\ running = Idle
    /\ last = NoCall

\* _init_H_clamping, lines 132-146.
InitHClamping(kind) ==
    /\ H_handshake' = kind
    /\ last' = [NoCall EXCEPT !.op = "_init_H_clamping"]
    /\ UNCHANGED << control_points_json, control_points, trajectory,
                    trajectory_skeleton_control_points,
                    trajectory_skeleton_control_points_distances,
                    consider_obstacle_collisions,
                    grasped_object_nominal_control_points,
                    grasped_object_grasp_T_object, csdf, collision_threshold, ee_pose,
                    running >>

\* set_collision_threshold, lines 148-149.
SetCollisionThreshold(threshold) ==
    /\ collision_threshold' = threshold
    /\ last' = [NoCall EXCEPT !.op = "set_collision_threshold"]
    /\ UNCHANGED << control_points_json, control_points, trajectory,
                    trajectory_skeleton_control_points,
                    trajectory_skeleton_control_points_distances,
                    consider_obstacle_collisions,
                    grasped_object_nominal_control_points,
                    grasped_object_grasp_T_object, csdf, H_handshake, ee_pose, running >>

\* UpdateObstaclePcd with the cached clearances recomputed against the new
\* cloud at once.
UpdateObstaclePcdEager(pcd) ==
    /\ csdf' = pcd
    /\ trajectory_skeleton_control_points_distances' =
           IF trajectory_skeleton_control_points.set
           THEN Value(ComputeDistances(trajectory_skeleton_control_points.val, pcd))
           ELSE trajectory_skeleton_control_points_distances
    /\ last' = [NoCall EXCEPT !.op = "update_obstacle_pcd", !.arg_pcd = pcd]
    /\ UNCHANGED << control_points_json, control_points, trajectory,
                    trajectory_skeleton_control_points,
                    consider_obstacle_collisions,
                    grasped_object_nominal_control_points,
                    grasped_object_grasp_T_object, collision_threshold,
                    H_handshake, ee_pose, running >>

\* update_obstacle_pcd, lines 355-367.
UpdateObstaclePcd(pcd) ==
    /\ csdf' = pcd
    /\ last' = [NoCall EXCEPT !.op = "update_obstacle_pcd", !.arg_pcd = pcd]
    /\ UNCHANGED << control_points_json, control_points, trajectory,
                    trajectory_skeleton_control_points,
                    trajectory_skeleton_control_points_distances,
                    consider_obstacle_collisions,
                    grasped_object_nominal_control_points,
                    grasped_object_grasp_T_object, collision_threshold,
                    H_handshake, ee_pose, running >>

Outcome(err) == IF err = "none" THEN "ok" ELSE err

\* NewTrajectory with the waypoints appended to the end of the stored
\* trajectory instead of replacing it.
ExtendedTrajectory(waypoints) ==
    Value(Interpolate((IF trajectory.set
                       THEN << trajectory.val[Len(trajectory.val)] >> ELSE << >>)
                      \o waypoints, TrajectorySize))

\* lines 282-286: the resampled trajectory.
NewTrajectory(waypoints) == Value(Interpolate(waypoints, TrajectorySize))

\* update_trajectory, lines 268-298.  self._trajectory is assigned before the
\* extraction, which may raise; the flag is assigned last.
UpdateTrajectory(waypoints, flag) ==
    LET r == TrajectoryControlPoints(NewTrajectory(waypoints).val,
                                     grasped_object_nominal_control_points,
                                     grasped_object_grasp_T_object)
    IN  /\ trajectory' = NewTrajectory(waypoints)
        /\ ee_pose' = EePoseAfter(NewTrajectory(waypoints).val)
        /\ IF r.err = "none"
           THEN /\ trajectory_skeleton_control_points' = Value(r.val)
                /\ trajectory_skeleton_control_points_distances' =
                       Value(ComputeDistances(r.val, csdf))
                /\ consider_obstacle_collisions' = flag
           ELSE UNCHANGED << trajectory_skeleton_control_points,
                             trajectory_skeleton_control_points_distances,
                             consider_obstacle_collisions >>
        /\ last' = [NoCall EXCEPT !.op = "update_trajectory", !.outcome = Outcome(r.err),
                                  !.arg_trajectory = waypoints, !.arg_flag = flag,
                                  !.again = /\ last.op = "update_trajectory"
                                            /\ last.arg_trajectory = waypoints
                                            /\ last.arg_flag = flag]
        /\ UNCHANGED << control_points_json, control_points,
                        grasped_object_nominal_control_points,
                        grasped_object_grasp_T_object, csdf, collision_threshold,
                        H_handshake, running >>

\* Recompute with the recomputation left out: the caches stay as they are.
StaleRecompute(nominal, grasp) ==
    [ee_pose |-> ee_pose,
     err |-> IF trajectory.set THEN "none" ELSE "AttributeError: _trajectory",
     points |-> trajectory_skeleton_control_points,
     distances |-> trajectory_skeleton_control_points_distances]

\* lines 414-420 and 442-446: the cache recomputed from the stored trajectory
\* under the attachment fields the caller has just written.
Recompute(nominal, grasp) ==
    IF ~trajectory.set
    THEN [ee_pose |-> ee_pose,
          err |-> "AttributeError: _trajectory",
          points |-> trajectory_skeleton_control_points,
          distances |-> trajectory_skeleton_control_points_distances]
    ELSE LET r == TrajectoryControlPoints(trajectory.val, nominal, grasp)
         IN  IF r.err # "none"
             THEN [ee_pose |-> ee_pose,
                   err |-> r.err,
                   points |-> trajectory_skeleton_control_points,
                   distances |-> trajectory_skeleton_control_points_distances]
             ELSE [ee_pose |-> EePoseAfter(trajectory.val),
                   err |-> "none",
                   points |-> Value(r.val),
                   distances |-> Value(ComputeDistances(r.val, csdf))]

\* lines 393-412: the attachment fields after the "pcd" branch, or as they were.
AttachedNominal(object) ==
    IF object.type = "pcd"
    THEN Value([j \in 1..Len(object.points) |->
                   VecAdd(object.T_obj_to_world, object.points[j])])
    ELSE grasped_object_nominal_control_points

AttachedGrasp(object) ==
    IF object.type = "pcd"
    THEN Value(object.T_eef_to_obj)
    ELSE grasped_object_grasp_T_object

\* attach_to_gripper, lines 369-422.
AttachToGripper(object) ==
    LET r == Recompute(AttachedNominal(object), AttachedGrasp(object))
    IN  /\ grasped_object_nominal_control_points' = AttachedNominal(object)
        /\ grasped_object_grasp_T_object' = AttachedGrasp(object)
        /\ trajectory_skeleton_control_points' = r.points
        /\ trajectory_skeleton_control_points_distances' = r.distances
        /\ ee_pose' = r.ee_pose
        /\ last' = [NoCall EXCEPT !.op = "attach_to_gripper",
                                  !.outcome = Outcome(r.err),
                                  !.ret = IF r.err = "none" THEN "True" ELSE "None",
                                  !.arg_object = object,
                                  !.pre = Snap,
                                  !.pre_nominal = grasped_object_nominal_control_points,
                                  !.pre_grasp = grasped_object_grasp_T_object]
        /\ UNCHANGED << control_points_json, control_points, trajectory,
                        consider_obstacle_collisions, csdf, collision_threshold,
                        H_handshake, running >>

\* Detached with the two fields left as they are.
NotDetached ==
    [nominal |-> grasped_object_nominal_control_points,
     grasp |-> grasped_object_grasp_T_object]

\* lines 439-440: both attachment fields are set to None.
Detached == [nominal |-> Unset, grasp |-> Unset]

\* detach_from_gripper, lines 424-448.
DetachFromGripper ==
    LET r == Recompute(Detached.nominal, Detached.grasp)
    IN  /\ grasped_object_nominal_control_points' = Detached.nominal
        /\ grasped_object_grasp_T_object' = Detached.grasp
        /\ trajectory_skeleton_control_points' = r.points
        /\ trajectory_skeleton_control_points_distances' = r.distances
        /\ ee_pose' = r.ee_pose
        /\ last' = [NoCall EXCEPT !.op = "detach_from_gripper",
                                  !.outcome = Outcome(r.err),
                                  !.ret = IF r.err = "none" THEN "True" ELSE "None",
                                  !.pre = Snap,
                                  !.round_trip = IF last.op = "attach_to_gripper"
                                                 THEN last.pre ELSE NoSnap]
        /\ UNCHANGED << control_points_json, control_points, trajectory,
                        consider_obstacle_collisions, csdf, collision_threshold,
                        H_handshake, running >>

\* lines 543-551: the target, through the clamp when one is configured.  The
\* clamp is called with the candidate alone (line 546): the human
\* configuration of the step does not reach it, and the only one it holds is
\* the one it was constructed with.
Target(candidate) ==
    IF H_handshake # "None"
    THEN ClampHumanJoints(H_handshake, candidate, human_rest_poses)
    ELSE candidate

\* line 553: assert not np.isnan(target_joint_angles).any()
AssertionHolds(target) == ~IsNanAny(target)

\* follow_trajectory, lines 487-555.  grad is what backward() leaves in
\* current_joint_angles_tensor.grad.  again: the call repeats the one before
\* it, with nothing in between.
FollowTrajectory(state, human, grad, time_step) ==
    LET fwd == Forward(state)
        raw == RawDelta(grad, time_step)
        delta == BoundedDelta(raw)
        candidate == Candidate(state, delta)
        target == Target(candidate)
        again == /\ last.op = "follow_trajectory"
                 /\ last.step.state = state
                 /\ last.step.human = human
                 /\ last.step.time_step = time_step
                 /\ last.step.grad \in {<< >>, grad}
    IN  /\ ee_pose' = EePoseAfter(<< state >>)
        /\ last' =
             IF fwd.err # "none"
             THEN [NoCall EXCEPT !.op = "follow_trajectory", !.outcome = fwd.err,
                                 !.again = again,
                                 !.step = [NoStep EXCEPT !.state = state,
                                                         !.human = human,
                                                         !.time_step = time_step,
                                                         !.forward = fwd]]
             ELSE [NoCall EXCEPT
                     !.op = "follow_trajectory",
                     !.outcome = IF AssertionHolds(target) THEN "ok"
                                 ELSE "AssertionError",
                     !.ret = IF AssertionHolds(target) THEN "target" ELSE "None",
                     !.again = again,
                     !.step = [state |-> state, grad |-> grad,
                               time_step |-> time_step, raw |-> raw,
                               delta |-> delta, target |-> target,
                               human |-> human, forward |-> fwd,
                               candidate |-> candidate]]
        /\ UNCHANGED << control_points_json, control_points, trajectory,
                        trajectory_skeleton_control_points,
                        trajectory_skeleton_control_points_distances,
                        consider_obstacle_collisions,
                        grasped_object_nominal_control_points,
                        grasped_object_grasp_T_object, csdf, collision_threshold,
                        H_handshake, running >>

Next ==
    \/ \E threshold \in Thresholds : SetCollisionThreshold(threshold)
    \/ \E pcd \in Clouds : UpdateObstaclePcd(pcd)
    \/ \E waypoints \in Trajectories, flag \in BOOLEAN : UpdateTrajectory(waypoints, flag)
    \/ \E object \in Objects : AttachToGripper(object)
    \/ DetachFromGripper
    \/ \E state \in CurrentConfigs :
          FollowTrajectory(state, << 0, 0 >>, << F(1000), F(0) >>, 5)

\* The controller with no clamp configured: the trajectory, the obstacle cloud,
\* the threshold, the attachment, and steps under one gradient.
Spec == Init /\ [][Next]_vars

StepNext ==
    \/ \E kind \in ClampKinds \ {"proximity"} : InitHClamping(kind)
    \/ \E waypoints \in StepTrajectories, flag \in BOOLEAN :
          UpdateTrajectory(waypoints, flag)
    \/ \E state \in CurrentConfigs, grad \in Gradients, time_step \in TimeSteps :
          FollowTrajectory(state, << 0, 0 >>, grad, time_step)

\* The step under every gradient and time step, with and without a clamp.
StepSpec == Init /\ [][StepNext]_vars

ClampNext ==
    \/ \E kind \in ClampKinds : InitHClamping(kind)
    \/ \E waypoints \in StepTrajectories, flag \in BOOLEAN :
          UpdateTrajectory(waypoints, flag)
    \/ \E state \in CurrentConfigs, human \in HumanConfigs, k \in 0..MaxGradScale :
          FollowTrajectory(state, human, << F(1000 * k), F(0) >>, 5)

\* The step under every human configuration, with each clamp and without.
ClampSpec == Init /\ [][ClampNext]_vars

(***************************************************************************)
(* Two threads on one controller.  The class holds no lock and starts no   *)
(* thread, so a call of update_trajectory, attach_to_gripper or            *)
(* detach_from_gripper made on one thread can be interrupted between its   *)
(* statements by a follow_trajectory made on another.  Each of the three   *)
(* is split where it has written its first fields and not yet the caches:  *)
(* running holds the call that is part-way through.                        *)
(***************************************************************************)
\* update_trajectory, lines 281-286: self._trajectory is assigned.
BeginUpdateTrajectory(waypoints, flag) ==
    /\ running = Idle
    /\ trajectory' = NewTrajectory(waypoints)
    /\ running' = [op |-> "update_trajectory", flag |-> flag]
    /\ UNCHANGED << control_points_json, control_points,
                    trajectory_skeleton_control_points,
                    trajectory_skeleton_control_points_distances,
                    consider_obstacle_collisions,
                    grasped_object_nominal_control_points,
                    grasped_object_grasp_T_object, csdf, collision_threshold,
                    H_handshake, ee_pose, last >>

\* update_trajectory, lines 288-298: the caches and the flag.
FinishUpdateTrajectory ==
    LET r == TrajectoryControlPoints(trajectory.val,
                                     grasped_object_nominal_control_points,
                                     grasped_object_grasp_T_object)
    IN  /\ running.op = "update_trajectory"
        /\ running' = Idle
        /\ ee_pose' = EePoseAfter(trajectory.val)
        /\ IF r.err = "none"
           THEN /\ trajectory_skeleton_control_points' = Value(r.val)
                /\ trajectory_skeleton_control_points_distances' =
                       Value(ComputeDistances(r.val, csdf))
                /\ consider_obstacle_collisions' = running.flag
           ELSE UNCHANGED << trajectory_skeleton_control_points,
                             trajectory_skeleton_control_points_distances,
                             consider_obstacle_collisions >>
        /\ last' = [NoCall EXCEPT !.op = "update_trajectory", !.outcome = Outcome(r.err),
                                  !.arg_flag = running.flag]
        /\ UNCHANGED << control_points_json, control_points, trajectory,
                        grasped_object_nominal_control_points,
                        grasped_object_grasp_T_object, csdf, collision_threshold,
                        H_handshake >>

\* attach_to_gripper, lines 392-412: the two attachment fields are assigned.
BeginAttachToGripper(object) ==
    /\ running = Idle
    /\ grasped_object_nominal_control_points' = AttachedNominal(object)
    /\ grasped_object_grasp_T_object' = AttachedGrasp(object)
    /\ running' = [op |-> "attach_to_gripper", flag |-> TRUE]
    /\ UNCHANGED << control_points_json, control_points, trajectory,
                    trajectory_skeleton_control_points,
                    trajectory_skeleton_control_points_distances,
                    consider_obstacle_collisions, csdf, collision_threshold,
                    H_handshake, ee_pose, last >>

\* detach_from_gripper, lines 438-440: the two attachment fields are cleared.
BeginDetachFromGripper ==
    /\ running = Idle
    /\ grasped_object_nominal_control_points' = Detached.nominal
    /\ grasped_object_grasp_T_object' = Detached.grasp
    /\ running' = [op |-> "detach_from_gripper", flag |-> TRUE]
    /\ UNCHANGED << control_points_json, control_points, trajectory,
                    trajectory_skeleton_control_points,
                    trajectory_skeleton_control_points_distances,
                    consider_obstacle_collisions, csdf, collision_threshold,
                    H_handshake, ee_pose, last >>

\* attach_to_gripper, lines 414-422, and detach_from_gripper, lines 442-448:
\* the caches recomputed under the attachment fields as they are now.
FinishRecompute ==
    LET r == Recompute(grasped_object_nominal_control_points,
                       grasped_object_grasp_T_object)
    IN  /\ running.op \in {"attach_to_gripper", "detach_from_gripper"}
        /\ running' = Idle
        /\ trajectory_skeleton_control_points' = r.points
        /\ trajectory_skeleton_control_points_distances' = r.distances
        /\ ee_pose' = r.ee_pose
        /\ last' = [NoCall EXCEPT !.op = running.op, !.outcome = Outcome(r.err),
                                  !.ret = IF r.err = "none" THEN "True" ELSE "None"]
        /\ UNCHANGED << control_points_json, control_points, trajectory,
                        consider_obstacle_collisions,
                        grasped_object_nominal_control_points,
                        grasped_object_grasp_T_object, csdf, collision_threshold,
                        H_handshake >>

ConcTrajectories ==
    { << Grid(0, 0), Grid(2, 1) >>, << Grid(2, 1), Grid(0, 0) >> }
ConcObjects == { Obj("pcd", << << 3, 0, 0 >> >>, RigidT) }

ConcNext ==
    \/ \E waypoints \in ConcTrajectories, flag \in BOOLEAN :
          BeginUpdateTrajectory(waypoints, flag)
    \/ FinishUpdateTrajectory
    \/ \E object \in ConcObjects : BeginAttachToGripper(object)
    \/ BeginDetachFromGripper
    \/ FinishRecompute
    \/ \E pcd \in Clouds : running = Idle /\ UpdateObstaclePcd(pcd)
    \/ \E state \in CurrentConfigs :
          FollowTrajectory(state, << 0, 0 >>, << F(1000), F(0) >>, 5)

\* One thread making the recomputation triggers, one making the steps.
ConcSpec == Init /\ [][ConcNext]_vars

(***************************************************************************)
(* Properties.                                                             *)
(***************************************************************************)
Stepped == last.op = "follow_trajectory" /\ last.step.forward.err = "none"

\* The squared Euclidean distance of two points.
DistSq(a, b) ==
    (a[1] - b[1]) * (a[1] - b[1]) + (a[2] - b[2]) * (a[2] - b[2])
    + (a[3] - b[3]) * (a[3] - b[3])

\* Waypoint i qualifies for the step in last: each cached point of it is within
\* the bound of the caller's corresponding point.
Qualifies(i) ==
    LET bound == IF consider_obstacle_collisions
                 THEN last.step.forward.sdf_value + 5 ELSE 10
    IN  \A p \in 1..Len(trajectory_skeleton_control_points.val[i]) :
            /\ bound >= 0
            /\ DistSq(trajectory_skeleton_control_points.val[i][p],
                      last.step.forward.skeleton[p]) <= bound * bound

Qualifying == { i \in 1..Len(trajectory.val) : Qualifies(i) }

\* C1: the target of a step is the qualifying waypoint with the highest
\* trajectory index, and the caller's own configuration, with a zero
\* attractive term, when no waypoint qualifies.
C1_TargetIsLastQualifying ==
    Stepped =>
        IF Qualifying = {}
        THEN /\ last.step.forward.goal = last.step.state
             /\ last.step.forward.attractive = 0
        ELSE \E i \in Qualifying :
                /\ \A j \in Qualifying : j <= i
                /\ last.step.forward.goal = trajectory.val[i]

\* A step whose target lies strictly inside the trajectory, with waypoints
\* before it that qualify too, obstacle avoidance enabled.
C1_Witness ==
    /\ Stepped
    /\ consider_obstacle_collisions
    /\ Cardinality(Qualifying) >= 2
    /\ \A i \in Qualifying : i < Len(trajectory.val)
    /\ last.step.forward.goal # trajectory.val[1]

\* C2: for a finite gradient, the displacement of a step is -0.3 * gradient *
\* time_step, rescaled to norm exactly 0.3 in the same direction when its norm
\* is greater than 0.3 and unchanged otherwise; its norm is at most 0.3.
C2_StepBounded ==
    (Stepped /\ \A k \in 1..2 : last.step.grad[k].t = "fin") =>
        LET raw == [k \in 1..2 |-> last.step.raw[k].v]
            delta == [k \in 1..2 |-> last.step.delta[k].v]
            limit == MAX_SPEED * MAX_SPEED
        IN  /\ \A k \in 1..2 :
                /\ last.step.raw[k].t = "fin" /\ last.step.delta[k].t = "fin"
                /\ 10000 * raw[k] = -(300 * last.step.grad[k].v * last.step.time_step)
                /\ last.step.candidate[k] = F(last.step.state[k] + delta[k])
            /\ SumSq(delta) <= limit
            /\ SumSq(raw) > limit =>
                  /\ SumSq(delta) = limit
                  /\ delta[1] * raw[2] = delta[2] * raw[1]
                  /\ delta[1] * raw[1] >= 0 /\ delta[2] * raw[2] >= 0
            /\ SumSq(raw) <= limit => delta = raw

\* A step whose raw displacement is longer than 0.3 in both joints.
C2_Witness ==
    /\ Stepped
    /\ last.step.raw = << F(-360), F(-480) >>
    /\ last.step.delta = << F(-180), F(-240) >>

\* C3: the potential of a step is 10 * attractive when the consider-obstacles
\* flag is false, whatever the clearance, and (1 + 10 * attractive) /
\* (1 + 2 * clearance) with clearance = sdf(dense points) - collision_threshold
\* when it is true; a completed update_trajectory leaves its argument as the
\* flag.
C3_PotentialByFlag ==
    /\ (last.op = "update_trajectory" /\ last.outcome = "ok")
          => consider_obstacle_collisions = last.arg_flag
    /\ Stepped =>
          LET fwd == last.step.forward
              dense == GetControlPoints(<< last.step.state >>,
                                        grasped_object_nominal_control_points,
                                        grasped_object_grasp_T_object).dense[1]
              clearance == CloudDistance(dense, csdf) - collision_threshold
          IN  /\ fwd.sdf_value = clearance
              /\ fwd.attractive = SumSq(VecSub(last.step.state, fwd.goal))
              /\ IF consider_obstacle_collisions
                 THEN fwd.potential = [num |-> 1000000 + 10 * fwd.attractive,
                                       den |-> 100 + 2 * clearance]
                 ELSE fwd.potential = [num |-> 10 * fwd.attractive, den |-> 100]

\* A step with the flag false and a nonzero attractive term, and one with the
\* flag true, a nonzero attractive term and a clearance that is not zero.
C3_Witness ==
    /\ Stepped
    /\ ~consider_obstacle_collisions
    /\ last.step.forward.attractive > 0
    /\ last.step.forward.sdf_value # 0

\* C4: a step never returns a target that contains a non-finite value (NaN or
\* infinite), with or without the clamp: it ends in an assertion failure.
C4_NoNonFiniteResult ==
    (last.op = "follow_trajectory" /\ last.ret = "target") =>
        \A k \in 1..2 : last.step.target[k].t = "fin"

\* C5: whenever a stored trajectory exists, both cache arrays exist, have one
\* entry per waypoint of it and were computed from it.
C5_CacheAligned ==
    trajectory.set =>
        /\ trajectory_skeleton_control_points.set
        /\ trajectory_skeleton_control_points_distances.set
        /\ Len(trajectory_skeleton_control_points.val) = Len(trajectory.val)
        /\ Len(trajectory_skeleton_control_points_distances.val) = Len(trajectory.val)
        /\ \E nominal \in {Unset, grasped_object_nominal_control_points},
              grasp \in {Unset, grasped_object_grasp_T_object} :
              LET r == TrajectoryControlPoints(trajectory.val, nominal, grasp)
              IN  r.err = "none" /\ r.val = trajectory_skeleton_control_points.val

\* An empty point set, or an offset that is not rigid.
Malformed(object) ==
    Len(object.points) = 0 \/ object.T_eef_to_obj.scale # 1

\* C6: attach_to_gripper with malformed geometry returns failure and leaves
\* both attachment fields as they were before the call (stated for a
\* controller that holds a trajectory and its cache).
C6_MalformedAttachRejected ==
    (/\ last.op = "attach_to_gripper"
     /\ last.pre.trajectory /\ last.pre.cache
     /\ Malformed(last.arg_object)) =>
        /\ last.outcome = "ok"
        /\ last.ret = "False"
        /\ grasped_object_nominal_control_points = last.pre_nominal
        /\ grasped_object_grasp_T_object = last.pre_grasp

\* The description path was given and the file was not found.
MissingDescription == control_points_json # "None" /\ ~control_points.set

\* C7: with a description path whose file is missing, no later call fails
\* because of the missing description, and the dense points are the
\* interpolated ones.
C7_MissingFileFallsBack ==
    MissingDescription =>
        /\ last.outcome # "AttributeError: control_points"
        /\ Snap.extract = "none"
        /\ Snap.dense_count = ControlPointsNumber

\* C8: from a state with a stored trajectory and no attachment, attach then
\* detach restores the numbers of skeleton and dense points extract produces,
\* and the number of cached skeleton points per waypoint where a cache existed.
C8_AttachDetachRoundTrip ==
    (/\ last.op = "detach_from_gripper"
     /\ last.round_trip.taken
     /\ last.round_trip.trajectory
     /\ ~last.round_trip.attached) =>
        /\ Snap.extract = last.round_trip.extract
        /\ Snap.skeleton_count = last.round_trip.skeleton_count
        /\ Snap.dense_count = last.round_trip.dense_count
        /\ last.round_trip.cache =>
              /\ Snap.cache
              /\ Snap.cached_count = last.round_trip.cached_count

\* A detach after an attach that had added two object points to the three
\* cached points of every waypoint.
C8_Witness ==
    /\ last.op = "detach_from_gripper"
    /\ last.outcome = "ok"
    /\ last.round_trip.taken /\ last.round_trip.trajectory
    /\ ~last.round_trip.attached
    /\ last.round_trip.cache /\ last.round_trip.cached_count = 3
    /\ last.pre.cached_count = 5 /\ last.pre.skeleton_count = 5
    /\ Snap.cached_count = 3

\* C9: an attach while an object is attached succeeds and replaces both
\* attachment fields with those of the second object (stated for a controller
\* that holds a trajectory and its cache).
C9_SecondAttachReplaces ==
    (/\ last.op = "attach_to_gripper"
     /\ last.pre.trajectory /\ last.pre.cache
     /\ last.pre.attached) =>
        /\ last.outcome = "ok"
        /\ grasped_object_grasp_T_object = Value(last.arg_object.T_eef_to_obj)
        /\ grasped_object_nominal_control_points =
              Value([j \in 1..Len(last.arg_object.points) |->
                        VecAdd(last.arg_object.T_obj_to_world, last.arg_object.points[j])])

\* C10: an update_trajectory that repeats the call before it, with the same
\* waypoints and flag, leaves the stored trajectory and both cache arrays as
\* the first call left them.
C10_UpdateTrajectoryIdempotent ==
    [][(last'.op = "update_trajectory" /\ last'.again) =>
          /\ trajectory' = trajectory
          /\ trajectory_skeleton_control_points' = trajectory_skeleton_control_points
          /\ trajectory_skeleton_control_points_distances' =
                 trajectory_skeleton_control_points_distances
          /\ consider_obstacle_collisions' = consider_obstacle_collisions]_vars

\* The second of two equal update_trajectory calls, both completed, on a
\* trajectory of more than one waypoint.
C10_Witness ==
    /\ last.op = "update_trajectory"
    /\ last.again
    /\ last.outcome = "ok"
    /\ Len(last.arg_trajectory) > 1
    /\ trajectory_skeleton_control_points.set

\* The cached clearances are those of the cached points against the cloud.
ClearancesAgainst(cloud) ==
    /\ trajectory_skeleton_control_points.set
    /\ trajectory_skeleton_control_points_distances =
           Value(ComputeDistances(trajectory_skeleton_control_points.val, cloud))

\* C11: update_obstacle_pcd replaces the obstacle cloud by its argument and
\* leaves the stored trajectory, the cached skeleton points, the cached
\* clearances, both attachment fields, the consider-obstacles flag and the
\* collision threshold unchanged, so the cached clearances stay those of the
\* previous cloud; a completed update_trajectory, attach_to_gripper or
\* detach_from_gripper leaves the clearances of the cached points against the
\* cloud held at that time.
C11_ObstacleUpdateFrame ==
    /\ []((/\ last.op \in {"update_trajectory", "attach_to_gripper",
                             "detach_from_gripper"}
           /\ last.outcome = "ok") => ClearancesAgainst(csdf))
    /\ [][last'.op = "update_obstacle_pcd" =>
            /\ csdf' = last'.arg_pcd
            /\ trajectory' = trajectory
            /\ trajectory_skeleton_control_points' = trajectory_skeleton_control_points
            /\ trajectory_skeleton_control_points_distances' =
                   trajectory_skeleton_control_points_distances
            /\ grasped_object_nominal_control_points' =
                   grasped_object_nominal_control_points
            /\ grasped_object_grasp_T_object' = grasped_object_grasp_T_object
            /\ consider_obstacle_collisions' = consider_obstacle_collisions
            /\ collision_threshold' = collision_threshold]_vars

\* After update_obstacle_pcd with a cloud that is nearer to the cached points:
\* the cached clearances are those against the previous cloud, not this one.
C11_Witness ==
    /\ last.op = "update_obstacle_pcd"
    /\ csdf = last.arg_pcd
    /\ trajectory_skeleton_control_points_distances.set
    /\ ~ClearancesAgainst(csdf)
    /\ \E cloud \in Clouds \ {csdf} : ClearancesAgainst(cloud)

\* The cached skeleton points are the extraction of the stored trajectory
\* under the attachment fields.
CacheOfStoredTrajectory ==
    /\ trajectory.set
    /\ trajectory_skeleton_control_points.set
    /\ TrajectoryControlPoints(trajectory.val, grasped_object_nominal_control_points,
                               grasped_object_grasp_T_object)
           = Ok(trajectory_skeleton_control_points.val)

\* C12: a step that runs while another thread is inside update_trajectory,
\* attach_to_gripper, detach_from_gripper or update_obstacle_pcd never sees
\* an intermediate state of it: the state a completed step used has the cache
\* of its stored trajectory under its attachment fields.
C12_StepSeesNoIntermediateState ==
    (last.op = "follow_trajectory" /\ last.outcome = "ok") => CacheOfStoredTrajectory

\* The number of points extract gives per configuration with nothing attached.
LinkPointCount ==
    IF MeshMode THEN Len(MeshLinkPoints(<< 0, 0 >>)) ELSE Len(link_skeleton)

\* C13: after an attach_to_gripper or a detach_from_gripper that returns, the
\* stored trajectory and the consider-obstacles flag are as before the call,
\* the cached skeleton points are the extraction of the stored trajectory
\* under the attachment fields the call left (the object's points appended to
\* every waypoint iff the fields hold an object), and the cached number of
\* points per waypoint is the number extract gives for a configuration.
C13_CacheFreshAfterAttachment ==
    /\ []((/\ last.op \in {"attach_to_gripper", "detach_from_gripper"}
           /\ last.outcome = "ok") =>
              /\ CacheOfStoredTrajectory
              /\ Snap.extract = "none"
              /\ Snap.cached_count = Snap.skeleton_count
              /\ \A i \in 1..Len(trajectory_skeleton_control_points.val) :
                    Len(trajectory_skeleton_control_points.val[i]) =
                       LinkPointCount
                       + (IF grasped_object_grasp_T_object.set
                          THEN Len(grasped_object_nominal_control_points.val) ELSE 0))
    /\ [][(/\ last'.op \in {"attach_to_gripper", "detach_from_gripper"}
           /\ last'.outcome = "ok") =>
              /\ trajectory' = trajectory
              /\ consider_obstacle_collisions' = consider_obstacle_collisions]_vars

\* An attach that returned and added the two points of its object to the
\* three cached points of every waypoint, on a trajectory of TrajectorySize
\* waypoints.
C13_Witness ==
    /\ last.op = "attach_to_gripper"
    /\ last.outcome = "ok"
    /\ last.pre.cache /\ last.pre.cached_count = 3 /\ ~last.pre.attached
    /\ grasped_object_grasp_T_object.set
    /\ Len(trajectory_skeleton_control_points.val) = TrajectorySize
    /\ Snap.cached_count = 5

\* C14: with a clamp configured, the configuration a step returns is the
\* clamp's output for the candidate (current configuration + bounded
\* displacement) together with the human configuration passed to the step;
\* with none configured it is the candidate.
C14_ClampRouting ==
    (last.op = "follow_trajectory" /\ last.ret = "target") =>
        /\ last.step.candidate =
               [k \in 1..2 |-> FAdd(last.step.state[k], last.step.delta[k])]
        /\ last.step.target =
               IF H_handshake # "None"
               THEN ClampHumanJoints(H_handshake, last.step.candidate, last.step.human)
               ELSE last.step.candidate

\* A step left every field of the controller but ee_pose as it was.
TickFrame ==
    /\ control_points_json' = control_points_json
    /\ control_points' = control_points
    /\ trajectory' = trajectory
    /\ trajectory_skeleton_control_points' = trajectory_skeleton_control_points
    /\ trajectory_skeleton_control_points_distances' =
           trajectory_skeleton_control_points_distances
    /\ consider_obstacle_collisions' = consider_obstacle_collisions
    /\ grasped_object_nominal_control_points' = grasped_object_nominal_control_points
    /\ grasped_object_grasp_T_object' = grasped_object_grasp_T_object
    /\ csdf' = csdf
    /\ collision_threshold' = collision_threshold
    /\ H_handshake' = H_handshake

\* A step that repeats the one before it ends as that one did.
SameResult ==
    last'.again =>
        /\ last'.outcome = last.outcome
        /\ last'.ret = last.ret
        /\ last'.step = last.step

\* C15 as claimed: a step leaves every field of the controller unchanged,
\* ee_pose included, in both geometry modes, and two consecutive steps from
\* the same configuration return the same result (stated for the steps that
\* return).
C15_TickSideEffectFree ==
    [][(last'.op = "follow_trajectory" /\ last'.outcome = "ok") =>
          /\ TickFrame
          /\ ee_pose' = ee_pose
          /\ SameResult]_vars

\* C15 as amended: a step leaves every field of the controller unchanged but
\* ee_pose, which the extraction of the mesh-sampled mode overwrites with the
\* end-effector pose of the configuration it was given (the interpolation
\* mode, and an extraction that finds no loaded description, write nothing);
\* two consecutive steps from the same configuration return the same result.
C15_TickWritesOnlyEePose ==
    [][last'.op = "follow_trajectory" =>
          /\ TickFrame
          /\ ee_pose' =
                 IF control_points_json # "None" /\ control_points.set
                 THEN Value(<< ForwardKinematics(last'.step.state, "ee_link") >>)
                 ELSE ee_pose
          /\ SameResult]_vars

\* The second of two equal completed steps in mesh-sampled mode, away from
\* the origin: ee_pose holds the pose of the step's configuration.
C15_Witness ==
    /\ last.op = "follow_trajectory"
    /\ last.again
    /\ last.outcome = "ok"
    /\ last.step.state = << 400, 200 >>
    /\ control_points_json # "None"
    /\ ee_pose = Value(<< << 10, 5, 0 >> >>)

====
